---- MODULE Spec2Model ----
(***************************************************************************)
(* Model of fund_crawler.py: the history retrieval pipeline of FundCrawler *)
(* (get_fund_history_data and its four provider methods).  One behaviour   *)
(* is one call get_fund_history_data(fund_code, start_date, end_date).     *)
(*                                                                         *)
(* Dates are day numbers 1..MaxDate; BadDate is a date text that           *)
(* pd.to_datetime rejects.  Numeric texts are parsed by Float; a parsed    *)
(* number is kept in tenths ("1.5" is 15).                                 *)
(***************************************************************************)
EXTENDS Integers, Sequences, FiniteSets, TLC

\* ---- bounds of the model
MaxDate == 2
MaxRows == 2
MaxText == 4
MaxInfoCalls == 5

\* ---- program constants
MaxAttempts == 3
LastSleepAttempt == 2
BackoffSeconds == 2
StatusOK == 200

BadDate == 0
Absent == "<absent>"
NaN == -999

Dates == 1..MaxDate

VARIABLES
  AKSHARE_AVAILABLE, \* module-level flag set by the import of akshare
  start_date,        \* argument of the call
  end_date,          \* argument of the call
  pc,                \* where the call is: "start", "loop", "akshare",
                     \* "eastmoney_new", "eastmoney_old", "sina", "check", "done"
  data_sources,      \* the provider list built by the call
  i,                 \* number of providers the for loop has finished with
  attempt,           \* loop variable of the retry loop of eastmoney_new
  df,                \* value the provider just handed to the orchestrator
  ret,               \* value returned to the caller
  results,           \* what every provider invoked so far returned, in order
  callOrder,         \* the providers invoked so far, in order
  net,               \* network requests and sleeps so far, in order
  outcomes,          \* how each attempt of eastmoney_new ended, in order
  log,               \* warning/error entries written by the orchestrator
  raised,            \* the providers inside which an exception was raised
  \* the JSON extraction of eastmoney_new applied to one text
  json_str,          \* response.text
  xpc,               \* "off", "text", "done"
  xout,              \* how the extraction ended
  xregion,           \* the text handed to json.loads
  \* one provider adapter applied to one answer of its source
  apc,               \* "off", "eastmoney_new", "akshare", "done"
  aresp,             \* the answer
  aout,              \* how the attempt (eastmoney_new) or the call (akshare) ended
  aframe,            \* the value it produced
  \* get_fund_basic_info
  ipc,               \* "off", "idle", "returned"
  info,              \* value the last call returned
  infoOutcome,       \* how the body of the last call ended
  infoNet,           \* number of requests sent by get_fund_basic_info
  infoCalls,         \* number of calls of get_fund_basic_info
  \* plot_fund_trend and the diagnostic test_fund_110022
  entry,             \* which of the two is running ("off" when neither)
  ppc,               \* "off", "info", "history", "done"
  pret               \* what it returned: "pending", "None", "df" (the series
                     \* of the history call), "True", "False", "raised"

extractVars == <<json_str, xpc, xout, xregion>>
adapterVars == <<apc, aresp, aout, aframe>>
infoVars == <<ipc, info, infoOutcome, infoNet, infoCalls>>
histVars == <<AKSHARE_AVAILABLE, start_date, end_date, pc, data_sources, i,
              attempt, df, ret, results, callOrder, net, outcomes, log, raised>>
plotVars == <<entry, ppc, pret>>
otherVars == <<extractVars, adapterVars, infoVars, plotVars>>
vars == <<histVars, otherVars>>

\* ---- values: None and DataFrame
None == [isNone |-> TRUE, rows |-> <<>>]
DataFrame(rows) == [isNone |-> FALSE, rows |-> rows]
Empty(d) == Len(d.rows) = 0

\* get_fund_basic_info returned None
NoInfo == [isNone |-> TRUE, net_value |-> 0, estimate_value |-> 0,
           estimate_growth_rate |-> 0]

\* ---- sequences
RECURSIVE SelectRows(_, _, _)
SelectRows(rows, lo, hi) ==
  IF rows = <<>> THEN <<>>
  ELSE LET r == Head(rows)
           rest == SelectRows(Tail(rows), lo, hi)
       IN IF r.date >= lo /\ r.date <= hi THEN <<r>> \o rest ELSE rest

Perms(n) == {p \in [1..n -> 1..n] : \A a, b \in 1..n : a # b => p[a] # p[b]}

IsSortedByDate(rows) ==
  \A a, b \in 1..Len(rows) : a < b => rows[a].date <= rows[b].date

\* the frame left in source order
SortValues_Unsorted(rows) == {rows}

\* df.sort_values('date').reset_index(drop=True): the rows reordered so that
\* dates ascend; the default sort kind gives no order among equal dates.
SortValues(rows) ==
  {s \in {[k \in 1..Len(rows) |-> rows[p[k]]] : p \in Perms(Len(rows))} :
     IsSortedByDate(s)}

\* ---- numeric texts
NumTexts == {"1.5", "2.5", "0.1", "", "x"}
Parseable(t) == t \in {"1.5", "2.5", "0.1"}
\* float(t) for a parseable text, in tenths
Float(t) == IF t = "1.5" THEN 15 ELSE IF t = "2.5" THEN 25 ELSE 1
\* pd.to_numeric(t, errors='coerce')
ToNumeric(t) == IF Parseable(t) THEN Float(t) ELSE NaN
\* Python truthiness of a text
Truthy(t) == t # ""

\* ---- the text of a response and the JSON extraction
\* a text is a sequence of characters: the two braces, "m" for the text of
\* the members of an object, "c" for any other character (callback name,
\* parentheses)
Chars == {"{", "}", "m", "c"}

\* str.find and str.rfind, positions counted from 0, -1 when not found
Find(t, ch) ==
  IF \E k \in 1..Len(t) : t[k] = ch
    THEN (CHOOSE k \in 1..Len(t) :
            t[k] = ch /\ \A j \in 1..(k - 1) : t[j] # ch) - 1
    ELSE 0 - 1
RFind(t, ch) ==
  IF \E k \in 1..Len(t) : t[k] = ch
    THEN (CHOOSE k \in 1..Len(t) :
            t[k] = ch /\ \A j \in (k + 1)..Len(t) : t[j] # ch) - 1
    ELSE 0 - 1

\* t[a:b] for 0 <= a and 0 <= b <= len(t)
Slice(t, a, b) == SubSeq(t, a + 1, b)

\* json.loads accepts t: an object, empty, with members, or whose last member
\* is an object
RECURSIVE JsonValid(_)
JsonValid(t) ==
  /\ Len(t) >= 2
  /\ t[1] = "{"
  /\ t[Len(t)] = "}"
  /\ LET inner == SubSeq(t, 2, Len(t) - 1)
     IN \/ inner = <<>>
        \/ inner = <<"m">>
        \/ (Len(inner) >= 3 /\ inner[1] = "m" /\ JsonValid(Tail(inner)))

StartIdx(t) == Find(t, "{")
EndIdx(t) == RFind(t, "}") + 1
\* the test of line 207
NoJsonFound(t) == StartIdx(t) = 0 - 1 \/ EndIdx(t) = 0
\* the argument of json.loads at line 211
Region(t) == Slice(t, StartIdx(t), EndIdx(t))

\* how lines 203-211 end for the text t
ExtractOutcome(t) ==
  IF NoJsonFound(t) THEN "nojson"
  ELSE IF ~JsonValid(Region(t)) THEN "badjson"
  ELSE "parsed"

\* ---- what the transports can answer
\* the texts the history model answers with: a JSONP envelope, no brace at
\* all, a closing brace ahead of the opening one, and a brace region that is
\* not JSON
Envelope == <<"c", "{", "m", "}">>
HistTexts == {Envelope, <<"c">>, <<"}", "{">>, <<"{", "c", "}">>}
AbsentDate == 0 - 1

\* an element of LSJZList
EmItems ==
  {[FSRQ |-> d, DWJZ |-> "1.5", LJJZ |-> "2.5", JZZZL |-> "0.1"] :
      d \in Dates \cup {BadDate, AbsentDate}}
  \cup {[FSRQ |-> 1, DWJZ |-> t, LJJZ |-> "2.5", JZZZL |-> "0.1"] :
      t \in {"", "x", Absent}}
  \cup {[FSRQ |-> 1, DWJZ |-> "1.5", LJJZ |-> t, JZZZL |-> "0.1"] :
      t \in {"", Absent}}
  \cup {[FSRQ |-> 1, DWJZ |-> "1.5", LJJZ |-> "2.5", JZZZL |-> t] :
      t \in {"", "x"}}

SeqsUpTo(S, n) == UNION {[1..k -> S] : k \in 0..n}

NoErrCode == 0 - 1

\* the answer to one session.get of eastmoney_new: the call raises (exc), or
\* a response with a status code and a text; ErrCode, hasList and LSJZList
\* say what the brace region of the text decodes to when it is JSON
EmResponses ==
  {[exc |-> TRUE, status |-> 0, text |-> <<>>, ErrCode |-> NoErrCode,
    hasList |-> FALSE, LSJZList |-> <<>>]}
  \cup {[exc |-> FALSE, status |-> 500, text |-> <<>>,
         ErrCode |-> NoErrCode, hasList |-> FALSE, LSJZList |-> <<>>]}
  \cup {[exc |-> FALSE, status |-> StatusOK, text |-> t, ErrCode |-> NoErrCode,
         hasList |-> FALSE, LSJZList |-> <<>>] : t \in HistTexts}
  \cup {[exc |-> FALSE, status |-> StatusOK, text |-> Envelope, ErrCode |-> e,
         hasList |-> FALSE, LSJZList |-> <<>>] : e \in {0, 1}}
  \cup {[exc |-> FALSE, status |-> StatusOK, text |-> Envelope, ErrCode |-> 0,
         hasList |-> TRUE, LSJZList |-> l] : l \in SeqsUpTo(EmItems, MaxRows)}

\* a row of the frame ak.fund_open_fund_info_em returns
AkItems ==
  {[date |-> d, net_value |-> "1.5", growth_rate |-> "0.1"] :
      d \in Dates \cup {BadDate}}
  \cup {[date |-> 1, net_value |-> t, growth_rate |-> "0.1"] : t \in {"", "x"}}
  \cup {[date |-> 1, net_value |-> "1.5", growth_rate |-> ""]}

\* the answer of ak.fund_open_fund_info_em: it raises (exc), returns None, or
\* returns a frame, with or without the three expected columns
AkResponses ==
  {[exc |-> TRUE, isNone |-> FALSE, hasCols |-> FALSE, rows |-> <<>>],
   [exc |-> FALSE, isNone |-> TRUE, hasCols |-> FALSE, rows |-> <<>>]}
  \cup {[exc |-> FALSE, isNone |-> FALSE, hasCols |-> c, rows |-> l] :
          c \in BOOLEAN, l \in SeqsUpTo(AkItems, MaxRows)}

\* ---- _get_history_from_akshare
\* the cumulative value left at zero
AkRow_ZeroCumulative(it) ==
  [date |-> it.date,
   net_value |-> ToNumeric(it.net_value),
   cumulative_value |-> 0,
   growth_rate |-> ToNumeric(it.growth_rate)]

AkRow(it) ==
  [date |-> it.date,
   net_value |-> ToNumeric(it.net_value),
   cumulative_value |-> ToNumeric(it.net_value),
   growth_rate |-> ToNumeric(it.growth_rate)]

\* the try block of lines 131-160 raises: the library call does, a column is
\* missing, or a date does not parse
AkshareRaises(resp) ==
  \/ resp.exc
  \/ /\ ~resp.isNone
     /\ resp.rows # <<>>
     /\ \/ ~resp.hasCols
        \/ \E k \in 1..Len(resp.rows) : resp.rows[k].date = BadDate

AkshareResult(resp, lo, hi) ==
  IF resp.exc THEN {None}
  ELSE IF resp.isNone \/ resp.rows = <<>> THEN {None}
  ELSE IF ~resp.hasCols THEN {None}
  ELSE IF \E k \in 1..Len(resp.rows) : resp.rows[k].date = BadDate THEN {None}
  ELSE {DataFrame(s) :
          s \in SortValues(SelectRows([k \in 1..Len(resp.rows) |->
                                         AkRow(resp.rows[k])], lo, hi))}

\* ---- _get_history_from_eastmoney_new, one attempt
\* the exception the dict literal of one LSJZList element raises, or "none"
ItemError(it) ==
  IF it.FSRQ = AbsentDate THEN "keyerror"
  ELSE IF it.DWJZ = Absent THEN "keyerror"
  ELSE IF Truthy(it.DWJZ) /\ ~Parseable(it.DWJZ) THEN "valueerror"
  ELSE IF it.LJJZ = Absent THEN "keyerror"
  ELSE IF Truthy(it.LJJZ) /\ ~Parseable(it.LJJZ) THEN "valueerror"
  ELSE IF it.JZZZL = Absent THEN "keyerror"
  ELSE IF Truthy(it.JZZZL) /\ ~Parseable(it.JZZZL) THEN "valueerror"
  ELSE "none"

RECURSIVE ListError(_)
ListError(l) ==
  IF l = <<>> THEN "none"
  ELSE IF ItemError(Head(l)) # "none" THEN ItemError(Head(l))
  ELSE ListError(Tail(l))

EmRow(it) ==
  [date |-> it.FSRQ,
   net_value |-> IF Truthy(it.DWJZ) THEN Float(it.DWJZ) ELSE 0,
   cumulative_value |-> IF Truthy(it.LJJZ) THEN Float(it.LJJZ) ELSE 0,
   growth_rate |-> IF Truthy(it.JZZZL) THEN Float(it.JZZZL) ELSE 0]

\* how one attempt ends
AttemptOutcome(resp) ==
  IF resp.exc THEN "transport"
  ELSE IF resp.status # StatusOK THEN "status"
  ELSE IF ExtractOutcome(resp.text) # "parsed" THEN ExtractOutcome(resp.text)
  ELSE IF resp.ErrCode # 0 THEN "errcode"
  ELSE IF ~resp.hasList \/ resp.LSJZList = <<>> THEN "empty"
  ELSE IF ListError(resp.LSJZList) # "none" THEN ListError(resp.LSJZList)
  ELSE IF \E k \in 1..Len(resp.LSJZList) : resp.LSJZList[k].FSRQ = BadDate
       THEN "baddate"
  ELSE "ok"

\* the frames a successful attempt can return
AttemptFrames(resp) ==
  {DataFrame(s) :
     s \in SortValues([k \in 1..Len(resp.LSJZList) |-> EmRow(resp.LSJZList[k])])}

\* the ways an attempt can end, and the frames a successful one can return,
\* over all the answers of the transport
AttemptOutcomes == {AttemptOutcome(resp) : resp \in EmResponses}
OkFrames ==
  UNION {AttemptFrames(resp) :
           resp \in {r \in EmResponses : AttemptOutcome(r) = "ok"}}

ContinueOutcomes == {"status", "nojson", "errcode"}
ExceptionOutcomes == {"transport", "badjson", "keyerror", "valueerror", "baddate"}

\* ---- state after construction, with the arguments of the call chosen
HistInit ==
  /\ AKSHARE_AVAILABLE \in BOOLEAN
  /\ start_date \in Dates
  /\ end_date \in Dates
  /\ pc = "start"
  /\ data_sources = <<>>
  /\ i = 0
  /\ attempt = 0
  /\ df = None
  /\ ret = None
  /\ results = <<>>
  /\ callOrder = <<>>
  /\ net = <<>>
  /\ outcomes = <<>>
  /\ log = <<>>
  /\ raised = {}

\* the variables of the other operations, at rest
HistRest ==
  /\ AKSHARE_AVAILABLE = FALSE
  /\ pc = "off"
  /\ data_sources = <<>>
  /\ i = 0
  /\ attempt = 0
  /\ df = None
  /\ ret = None
  /\ results = <<>>
  /\ callOrder = <<>>
  /\ net = <<>>
  /\ outcomes = <<>>
  /\ log = <<>>
  /\ raised = {}

HistOff == HistRest /\ start_date = 1 /\ end_date = 1

ExtractOff ==
  /\ json_str = <<>>
  /\ xpc = "off"
  /\ xout = "none"
  /\ xregion = <<>>

AdapterOff ==
  /\ apc = "off"
  /\ aresp = <<>>
  /\ aout = "none"
  /\ aframe = None

InfoOff ==
  /\ ipc = "off"
  /\ info = NoInfo
  /\ infoOutcome = "none"
  /\ infoNet = 0
  /\ infoCalls = 0

PlotOff ==
  /\ entry = "off"
  /\ ppc = "off"
  /\ pret = "pending"

Init == HistInit /\ ExtractOff /\ AdapterOff /\ InfoOff /\ PlotOff

\* ---- get_fund_history_data
\* the test without its emptiness half
Accepts_NoneOnly(d) == ~d.isNone

\* the test the for loop applies to what a provider returned
Accepts(d) == ~d.isNone /\ ~Empty(d)

\* akshare put behind the other providers
BuildSources_Append ==
  /\ pc = "start"
  /\ data_sources' =
       <<"eastmoney_new", "eastmoney_old", "sina">>
         \o (IF AKSHARE_AVAILABLE THEN <<"akshare">> ELSE <<>>)
  /\ pc' = "loop"
  /\ UNCHANGED <<otherVars, raised,
                 AKSHARE_AVAILABLE, start_date, end_date, i, attempt, df, ret,
                 results, callOrder, net, outcomes, log>>

\* the provider list, by priority
BuildSources ==
  /\ pc = "start"
  /\ data_sources' =
       (IF AKSHARE_AVAILABLE THEN <<"akshare">> ELSE <<>>)
         \o <<"eastmoney_new", "eastmoney_old", "sina">>
  /\ pc' = "loop"
  /\ UNCHANGED <<otherVars, raised,
                 AKSHARE_AVAILABLE, start_date, end_date, i, attempt, df, ret,
                 results, callOrder, net, outcomes, log>>

\* df = data_source(fund_code, start_date, end_date): control enters the provider
OrchInvoke ==
  /\ pc = "loop"
  /\ i < Len(data_sources)
  /\ pc' = data_sources[i + 1]
  /\ callOrder' = Append(callOrder, data_sources[i + 1])
  /\ attempt' = 0
  /\ UNCHANGED <<otherVars, raised,
                 AKSHARE_AVAILABLE, start_date, end_date, data_sources, i, df,
                 ret, results, net, outcomes, log>>

\* the frame is cut to the requested range before it is returned
OrchReturn_Filtered ==
  /\ pc = "check"
  /\ Accepts(df)
  /\ ret' = DataFrame(SelectRows(df.rows, start_date, end_date))
  /\ log' = Append(log, [level |-> "info", source |-> data_sources[i + 1]])
  /\ pc' = "done"
  /\ UNCHANGED <<otherVars, raised,
                 AKSHARE_AVAILABLE, start_date, end_date, data_sources, i,
                 attempt, df, results, callOrder, net, outcomes>>

\* the frame is kept but the loop goes on
OrchReturn_NoBreak ==
  /\ pc = "check"
  /\ Accepts(df)
  /\ ret' = df
  /\ log' = Append(log, [level |-> "info", source |-> data_sources[i + 1]])
  /\ i' = i + 1
  /\ pc' = "loop"
  /\ UNCHANGED <<otherVars, raised,
                 AKSHARE_AVAILABLE, start_date, end_date, data_sources,
                 attempt, df, results, callOrder, net, outcomes>>

\* the provider's value is a non-empty frame: it is returned
OrchReturn ==
  /\ pc = "check"
  /\ Accepts(df)
  /\ ret' = df
  /\ log' = Append(log, [level |-> "info", source |-> data_sources[i + 1]])
  /\ pc' = "done"
  /\ UNCHANGED <<otherVars, raised,
                 AKSHARE_AVAILABLE, start_date, end_date, data_sources, i,
                 attempt, df, results, callOrder, net, outcomes>>

\* the warning is written for None only, not for an empty frame
OrchSkip_NoneOnly ==
  /\ pc = "check"
  /\ ~Accepts(df)
  /\ log' = IF df.isNone
              THEN Append(log, [level |-> "warning", source |-> data_sources[i + 1]])
              ELSE log
  /\ i' = i + 1
  /\ pc' = "loop"
  /\ UNCHANGED <<otherVars, raised,
                 AKSHARE_AVAILABLE, start_date, end_date, data_sources,
                 attempt, df, ret, results, callOrder, net, outcomes>>

\* a provider that returned None ends the call
OrchSkip_AbortOnNone ==
  /\ pc = "check"
  /\ ~Accepts(df)
  /\ log' = Append(log, [level |-> "warning", source |-> data_sources[i + 1]])
  /\ IF df.isNone
       THEN ret' = None /\ pc' = "done" /\ i' = i
       ELSE ret' = ret /\ pc' = "loop" /\ i' = i + 1
  /\ UNCHANGED <<otherVars, raised,
                 AKSHARE_AVAILABLE, start_date, end_date, data_sources,
                 attempt, df, results, callOrder, net, outcomes>>

\* the provider is passed over without a log entry
OrchSkip_Silent ==
  /\ pc = "check"
  /\ ~Accepts(df)
  /\ i' = i + 1
  /\ pc' = "loop"
  /\ UNCHANGED <<otherVars, raised,
                 AKSHARE_AVAILABLE, start_date, end_date, data_sources,
                 attempt, df, ret, results, callOrder, net, outcomes, log>>

\* the provider's value is None or an empty frame: a warning, next provider
OrchSkip ==
  /\ pc = "check"
  /\ ~Accepts(df)
  /\ log' = Append(log, [level |-> "warning", source |-> data_sources[i + 1]])
  /\ i' = i + 1
  /\ pc' = "loop"
  /\ UNCHANGED <<otherVars, raised,
                 AKSHARE_AVAILABLE, start_date, end_date, data_sources,
                 attempt, df, ret, results, callOrder, net, outcomes>>

\* the loop gives up one provider early
OrchExhausted_Early ==
  /\ pc = "loop"
  /\ i >= Len(data_sources) - 1
  /\ ret' = None
  /\ log' = Append(log, [level |-> "error", source |-> "all"])
  /\ pc' = "done"
  /\ UNCHANGED <<otherVars, raised,
                 AKSHARE_AVAILABLE, start_date, end_date, data_sources, i,
                 attempt, df, results, callOrder, net, outcomes>>

\* the list is used up: an error entry, None is returned
OrchExhausted ==
  /\ pc = "loop"
  /\ i = Len(data_sources)
  /\ ret' = None
  /\ log' = Append(log, [level |-> "error", source |-> "all"])
  /\ pc' = "done"
  /\ UNCHANGED <<otherVars, raised,
                 AKSHARE_AVAILABLE, start_date, end_date, data_sources, i,
                 attempt, df, results, callOrder, net, outcomes>>

\* a provider hands d back to the for loop
Return(source, d) ==
  /\ df' = d
  /\ results' = Append(results, [source |-> source, df |-> d])
  /\ pc' = "check"

\* ---- _get_history_from_akshare: one call of the akshare library
AkshareCall ==
  /\ pc = "akshare"
  /\ AKSHARE_AVAILABLE
  /\ \E resp \in AkResponses :
       /\ \E d \in AkshareResult(resp, start_date, end_date) :
             Return("akshare", d)
       /\ raised' = IF AkshareRaises(resp) THEN raised \cup {"akshare"}
                                          ELSE raised
  /\ net' = Append(net, "call:akshare")
  /\ UNCHANGED <<otherVars,
                 AKSHARE_AVAILABLE, start_date, end_date, data_sources, i,
                 attempt, ret, callOrder, outcomes, log>>

\* ---- _get_history_from_eastmoney_new: one pass of the retry loop each
\* a loop that does not count its passes
NextAttempt_NoCount(kind, events) ==
  /\ outcomes' = Append(outcomes, kind)
  /\ net' = net \o events
  /\ attempt' = attempt
  /\ raised' = raised
  /\ UNCHANGED <<otherVars, df, results, pc,
                 AKSHARE_AVAILABLE, start_date, end_date, data_sources, i,
                 ret, callOrder, log>>

\* the end of a pass that did not return: the next pass, or None after the last
NextAttempt(kind, events) ==
  /\ outcomes' = Append(outcomes, kind)
  /\ net' = net \o events
  /\ attempt' = attempt + 1
  /\ IF attempt + 1 = MaxAttempts
       THEN Return("eastmoney_new", None)
       ELSE UNCHANGED <<df, results, pc>>
  /\ raised' = IF kind \in ExceptionOutcomes
                 THEN raised \cup {"eastmoney_new"}
                 ELSE raised
  /\ UNCHANGED <<otherVars,
                 AKSHARE_AVAILABLE, start_date, end_date, data_sources, i,
                 ret, callOrder, log>>

\* the rows are parsed, sorted and returned
EmNewSuccess ==
  /\ pc = "eastmoney_new"
  /\ "ok" \in AttemptOutcomes
  /\ \E d \in OkFrames : Return("eastmoney_new", d)
  /\ outcomes' = Append(outcomes, "ok")
  /\ net' = Append(net, "req:eastmoney_new")
  /\ UNCHANGED <<otherVars, raised,
                 AKSHARE_AVAILABLE, start_date, end_date, data_sources, i,
                 attempt, ret, callOrder, log>>

\* a continue that leaves the function instead
EmNewContinue_GiveUp ==
  /\ pc = "eastmoney_new"
  /\ \E kind \in AttemptOutcomes \cap ContinueOutcomes :
       outcomes' = Append(outcomes, kind)
  /\ net' = Append(net, "req:eastmoney_new")
  /\ attempt' = attempt + 1
  /\ Return("eastmoney_new", None)
  /\ UNCHANGED <<otherVars, raised,
                 AKSHARE_AVAILABLE, start_date, end_date, data_sources, i,
                 ret, callOrder, log>>

\* status is not 200, no brace in the text, or ErrCode is not 0: continue
EmNewContinue ==
  /\ pc = "eastmoney_new"
  /\ \E kind \in AttemptOutcomes \cap ContinueOutcomes :
       NextAttempt(kind, <<"req:eastmoney_new">>)

\* no Data or no LSJZList: a warning, and the pass ends
EmNewEmpty ==
  /\ pc = "eastmoney_new"
  /\ "empty" \in AttemptOutcomes
  /\ NextAttempt("empty", <<"req:eastmoney_new">>)

\* an exception in the pass: sleep unless this was the last pass
EmNewException ==
  /\ pc = "eastmoney_new"
  /\ \E kind \in AttemptOutcomes \cap ExceptionOutcomes :
       NextAttempt(kind,
                   IF attempt < LastSleepAttempt
                     THEN <<"req:eastmoney_new", "sleep">>
                     ELSE <<"req:eastmoney_new">>)

\* ---- _get_history_from_eastmoney_old: one request, which raises or answers;
\* the exception or the answer is only logged
EmOldCall ==
  /\ pc = "eastmoney_old"
  /\ net' = Append(net, "req:eastmoney_old")
  /\ Return("eastmoney_old", None)
  /\ \E exc \in BOOLEAN :
       raised' = IF exc THEN raised \cup {"eastmoney_old"} ELSE raised
  /\ UNCHANGED <<otherVars,
                 AKSHARE_AVAILABLE, start_date, end_date, data_sources, i,
                 attempt, ret, callOrder, outcomes, log>>

\* a stub that asks the network first
SinaCall_Request ==
  /\ pc = "sina"
  /\ net' = Append(net, "req:sina")
  /\ Return("sina", None)
  /\ UNCHANGED <<otherVars, raised,
                 AKSHARE_AVAILABLE, start_date, end_date, data_sources, i,
                 attempt, ret, callOrder, outcomes, log>>

\* ---- _get_history_from_sina: not implemented
SinaCall ==
  /\ pc = "sina"
  /\ Return("sina", None)
  /\ UNCHANGED <<otherVars, raised,
                 AKSHARE_AVAILABLE, start_date, end_date, data_sources, i,
                 attempt, ret, callOrder, net, outcomes, log>>

Next ==
  \/ BuildSources
  \/ OrchInvoke
  \/ OrchReturn
  \/ OrchSkip
  \/ OrchExhausted
  \/ AkshareCall
  \/ EmNewSuccess
  \/ EmNewContinue
  \/ EmNewEmpty
  \/ EmNewException
  \/ EmOldCall
  \/ SinaCall

Spec == Init /\ [][Next]_vars

\* ---- the JSON extraction of _get_history_from_eastmoney_new (lines 203-211)
\* applied to one text
Texts == SeqsUpTo(Chars, MaxText)

InitExtract ==
  /\ HistOff /\ AdapterOff /\ InfoOff /\ PlotOff
  /\ json_str \in Texts
  /\ xpc = "text"
  /\ xout = "none"
  /\ xregion = <<>>

\* no '{' or no '}': the warning of line 208, nothing is parsed
ExtractNoJson ==
  /\ xpc = "text"
  /\ NoJsonFound(json_str)
  /\ xout' = "nojson"
  /\ xpc' = "done"
  /\ UNCHANGED <<histVars, adapterVars, infoVars, plotVars, json_str, xregion>>

\* json.loads is given the region and returns
ExtractParsed ==
  /\ xpc = "text"
  /\ ~NoJsonFound(json_str)
  /\ JsonValid(Region(json_str))
  /\ xregion' = Region(json_str)
  /\ xout' = "parsed"
  /\ xpc' = "done"
  /\ UNCHANGED <<histVars, adapterVars, infoVars, plotVars, json_str>>

\* json.loads is given the region and raises
ExtractBadJson ==
  /\ xpc = "text"
  /\ ~NoJsonFound(json_str)
  /\ ~JsonValid(Region(json_str))
  /\ xregion' = Region(json_str)
  /\ xout' = "badjson"
  /\ xpc' = "done"
  /\ UNCHANGED <<histVars, adapterVars, infoVars, plotVars, json_str>>

NextExtract == ExtractNoJson \/ ExtractParsed \/ ExtractBadJson

SpecExtract == InitExtract /\ [][NextExtract]_vars

\* ---- one provider adapter applied to one answer of its source
InitAdapter ==
  /\ HistRest /\ ExtractOff /\ InfoOff /\ PlotOff
  /\ start_date \in Dates
  /\ end_date \in Dates
  /\ \/ apc = "eastmoney_new" /\ aresp \in EmResponses
     \/ apc = "akshare" /\ aresp \in AkResponses
  /\ aout = "none"
  /\ aframe = None

\* one pass of the retry loop of _get_history_from_eastmoney_new
AdapterEmAttempt ==
  /\ apc = "eastmoney_new"
  /\ aout' = AttemptOutcome(aresp)
  /\ aframe' \in (IF AttemptOutcome(aresp) = "ok" THEN AttemptFrames(aresp)
                                                  ELSE {None})
  /\ apc' = "em_done"
  /\ UNCHANGED <<histVars, extractVars, infoVars, plotVars, aresp>>

\* the body of _get_history_from_akshare
AdapterAkCall ==
  /\ apc = "akshare"
  /\ aout' = (IF AkshareRaises(aresp) THEN "exception"
              ELSE IF aresp.isNone \/ aresp.rows = <<>> THEN "nodata"
              ELSE "ok")
  /\ aframe' \in AkshareResult(aresp, start_date, end_date)
  /\ apc' = "ak_done"
  /\ UNCHANGED <<histVars, extractVars, infoVars, plotVars, aresp>>

NextAdapter == AdapterEmAttempt \/ AdapterAkCall

SpecAdapter == InitAdapter /\ [][NextAdapter]_vars

\* ---- get_fund_basic_info
\* the text of the quote endpoint is a sequence of pieces: the JSONP prefix
\* "jsonpgz(", the JSONP suffix ");", "J" for the text of a JSON object, "L"
\* for the text of a JSON value that is not an object, "c" for anything else
InfoPieces == {"jsonpgz(", ");", "J", "L", "c"}
Jsonp == <<"jsonpgz(", "J", ");">>
InfoFieldTexts == {"1.5", "", Absent}

\* str.replace(piece, '')
RemoveAll(t, piece) == SelectSeq(t, LAMBDA x : x # piece)

\* the answer to the session.get of get_fund_basic_info: the call raises
\* (exc), or a text; dwjz, gsz and gszzl are the values of these keys in the
\* object the text holds
InfoResponses ==
  {[exc |-> TRUE, text |-> <<>>, dwjz |-> Absent, gsz |-> Absent, gszzl |-> Absent]}
  \cup {[exc |-> FALSE, text |-> t, dwjz |-> "1.5", gsz |-> "1.5", gszzl |-> "1.5"] :
          t \in SeqsUpTo(InfoPieces, MaxText)}
  \cup {[exc |-> FALSE, text |-> Jsonp, dwjz |-> a, gsz |-> b, gszzl |-> c] :
          a \in InfoFieldTexts, b \in InfoFieldTexts, c \in InfoFieldTexts}

\* float(data.get(key, 0)) raises
InfoFloatRaises(t) == t # Absent /\ ~Parseable(t)
\* float(data.get(key, 0))
InfoFloat(t) == IF t = Absent THEN 0 ELSE Float(t)

\* how the try block of lines 65-80 ends
InfoOutcome(resp) ==
  LET js == RemoveAll(RemoveAll(resp.text, "jsonpgz("), ");")
  IN IF resp.exc THEN "transport"
     ELSE IF js = <<"L">> THEN "attribute"
     ELSE IF js # <<"J">> THEN "json"
     ELSE IF \E t \in {resp.dwjz, resp.gsz, resp.gszzl} : InfoFloatRaises(t)
          THEN "float"
     ELSE "ok"

\* the value the function returns
InfoResult(resp) ==
  IF InfoOutcome(resp) = "ok"
    THEN [isNone |-> FALSE, net_value |-> InfoFloat(resp.dwjz),
          estimate_value |-> InfoFloat(resp.gsz),
          estimate_growth_rate |-> InfoFloat(resp.gszzl)]
    ELSE NoInfo

\* the ways a call can end, over all the answers of the transport
InfoReturns == {<<InfoOutcome(resp), InfoResult(resp)>> : resp \in InfoResponses}

InitInfo ==
  /\ HistOff /\ ExtractOff /\ AdapterOff /\ PlotOff
  /\ ipc = "idle"
  /\ info = NoInfo
  /\ infoOutcome = "none"
  /\ infoNet = 0
  /\ infoCalls = 0

\* a failed request is sent once more
InfoCall_Retry ==
  /\ ipc = "idle"
  /\ \E r \in InfoReturns :
       /\ infoOutcome' = r[1]
       /\ info' = r[2]
       /\ infoNet' = infoNet + (IF r[1] = "ok" THEN 1 ELSE 2)
  /\ infoCalls' = infoCalls + 1
  /\ ipc' = "returned"
  /\ UNCHANGED <<histVars, extractVars, adapterVars, plotVars>>

\* one call: one request, then the dict, or None from the except clause
InfoCall ==
  /\ ipc = "idle"
  /\ \E r \in InfoReturns :
       /\ infoOutcome' = r[1]
       /\ info' = r[2]
  /\ infoNet' = infoNet + 1
  /\ infoCalls' = infoCalls + 1
  /\ ipc' = "returned"
  /\ UNCHANGED <<histVars, extractVars, adapterVars, plotVars>>

\* the caller is free to call again
InfoAgain ==
  /\ ipc = "returned"
  /\ infoCalls < MaxInfoCalls
  /\ ipc' = "idle"
  /\ UNCHANGED <<histVars, extractVars, adapterVars, plotVars, info, infoOutcome,
                 infoNet, infoCalls>>

NextInfo == InfoCall \/ InfoAgain

SpecInfo == InitInfo /\ [][NextInfo]_vars

\* ---- plot_fund_trend (lines 285-328) and test_fund_110022 (test file,
\* lines 16-69): the quote, then the history, then the drawing or the report
Entries == {"plot_fund_trend", "test_fund_110022"}

\* the range each one asks the history for: plot_fund_trend asks from
\* now - days (end_date None, which the history call replaces by now),
\* test_fund_110022 for a fixed range
InitPlot ==
  /\ ExtractOff /\ AdapterOff
  /\ entry \in Entries
  /\ ppc = "info"
  /\ pret = "pending"
  /\ ipc = "idle"
  /\ info = NoInfo
  /\ infoOutcome = "none"
  /\ infoNet = 0
  /\ infoCalls = 0
  /\ AKSHARE_AVAILABLE \in BOOLEAN
  /\ end_date = MaxDate
  /\ start_date \in (IF entry = "plot_fund_trend" THEN Dates ELSE {1})
  /\ pc = "off"
  /\ data_sources = <<>>
  /\ i = 0
  /\ attempt = 0
  /\ df = None
  /\ ret = None
  /\ results = <<>>
  /\ callOrder = <<>>
  /\ net = <<>>
  /\ outcomes = <<>>
  /\ log = <<>>
  /\ raised = {}

\* `if not fund_info: return` / `else: return False`
PlotNoInfo ==
  /\ ppc = "info"
  /\ ipc = "returned"
  /\ info.isNone
  /\ ppc' = "done"
  /\ pret' = IF entry = "plot_fund_trend" THEN "None" ELSE "False"
  /\ UNCHANGED <<histVars, extractVars, adapterVars, infoVars, entry>>

\* the history is asked for whatever the quote returned
PlotStartHistory_Always ==
  /\ ppc = "info"
  /\ ipc = "returned"
  /\ ppc' = "history"
  /\ pc' = "start"
  /\ UNCHANGED <<extractVars, adapterVars, infoVars, entry, pret,
                 AKSHARE_AVAILABLE, start_date, end_date, data_sources, i,
                 attempt, df, ret, results, callOrder, net, outcomes, log,
                 raised>>

\* the quote is a dict: control enters get_fund_history_data
PlotStartHistory ==
  /\ ppc = "info"
  /\ ipc = "returned"
  /\ ~info.isNone
  /\ ppc' = "history"
  /\ pc' = "start"
  /\ UNCHANGED <<extractVars, adapterVars, infoVars, entry, pret,
                 AKSHARE_AVAILABLE, start_date, end_date, data_sources, i,
                 attempt, df, ret, results, callOrder, net, outcomes, log,
                 raised>>

\* `if df is None or df.empty: return` / `else: return False`
PlotNoData ==
  /\ ppc = "history"
  /\ pc = "done"
  /\ ~Accepts(ret)
  /\ ppc' = "done"
  /\ pret' = IF entry = "plot_fund_trend" THEN "None" ELSE "False"
  /\ UNCHANGED <<histVars, extractVars, adapterVars, infoVars, entry>>

\* the figure is drawn and saved, or the CSV file written; either the
\* series (True in the test) is returned, or the drawing or the writing
\* raises: out of plot_fund_trend, into the except clause in the test
PlotReport ==
  /\ ppc = "history"
  /\ pc = "done"
  /\ Accepts(ret)
  /\ ppc' = "done"
  /\ \E ok \in BOOLEAN :
       pret' = IF entry = "plot_fund_trend"
                 THEN (IF ok THEN "df" ELSE "raised")
                 ELSE (IF ok THEN "True" ELSE "False")
  /\ UNCHANGED <<histVars, extractVars, adapterVars, infoVars, entry>>

NextPlot ==
  \/ InfoCall
  \/ PlotNoInfo
  \/ PlotStartHistory
  \/ Next
  \/ PlotNoData
  \/ PlotReport

SpecPlot == InitPlot /\ [][NextPlot]_vars

TypeOK ==
  /\ pc \in {"off", "start", "loop", "akshare", "eastmoney_new",
             "eastmoney_old", "sina", "check", "done"}
  /\ i \in 0..4
  /\ attempt \in 0..MaxAttempts
  /\ ipc \in {"off", "idle", "returned"}
  /\ infoCalls \in 0..MaxInfoCalls
  /\ infoNet \in 0..MaxInfoCalls
  /\ entry \in Entries \cup {"off"}
  /\ ppc \in {"off", "info", "history", "done"}
  /\ pret \in {"pending", "None", "df", "True", "False", "raised"}

\* ---- helpers of the properties
Count(seq, x) == Cardinality({k \in 1..Len(seq) : seq[k] = x})
Returned(source) == \E k \in 1..Len(results) : results[k].source = source
ResultOf(source) ==
  results[CHOOSE k \in 1..Len(results) : results[k].source = source].df
Invoked(source) == \E k \in 1..Len(callOrder) : callOrder[k] = source
StrictlySortedByDate(rows) ==
  \A a, b \in 1..Len(rows) : a < b => rows[a].date < rows[b].date
\* the providers whose failure reason the value v carries
CarriedReasons(v) == IF "reasons" \in DOMAIN v THEN DOMAIN v.reasons ELSE {}

\* C1: short-circuit.  If the provider at position k returned a non-empty
\* series, it is the last provider invoked in the call (none at a position
\* above k is ever invoked), the call is handing that series back or has
\* handed it back, and the value returned is that series.
C1_ShortCircuit ==
  \A k \in 1..Len(results) :
     Accepts(results[k].df) =>
        /\ k = Len(results)
        /\ callOrder = SubSeq(data_sources, 1, k)
        /\ pc \in {"check", "done"}
        /\ pc = "done" => ret = results[k].df

\* a non-empty series came from a provider that is not the last of the list,
\* and was returned
C1_Witness ==
  /\ pc = "done"
  /\ Accepts(ret)
  /\ Len(callOrder) < Len(data_sources)

\* C2: exhaustion.  When the call is over and every provider invoked failed
\* (or None was returned), every provider of the list was invoked exactly
\* once, in list order, each one failed, and the value returned is None.
C2_Exhaustion ==
  (pc = "done" /\ (ret.isNone \/ \A k \in 1..Len(results) : ~Accepts(results[k].df)))
    => /\ ret = None
       /\ callOrder = data_sources
       /\ Len(results) = Len(data_sources)
       /\ \A k \in 1..Len(results) :
            /\ results[k].source = data_sources[k]
            /\ ~Accepts(results[k].df)

\* all four providers were tried and the call returned None
C2_Witness ==
  /\ pc = "done"
  /\ ret.isNone
  /\ Len(callOrder) = 4

\* C3 as claimed: the value returned when all providers failed carries the
\* failure reason of every provider that was tried.
C3_ReasonsCarried ==
  (pc = "done" /\ ret.isNone) =>
     \A k \in 1..Len(results) : results[k].source \in CarriedReasons(ret)

\* C3 as amended: the value returned when all providers failed is the bare
\* None, which carries no reasons; every provider tried and skipped is
\* recorded only in the log, by one warning entry that names it, in the order
\* tried, followed by one error entry.
C3_ReasonsOnlyLogged ==
  (pc = "done" /\ ret.isNone) =>
     /\ ret = None
     /\ CarriedReasons(ret) = {}
     /\ log = [k \in 1..Len(data_sources) |->
                 [level |-> "warning", source |-> data_sources[k]]]
              \o <<[level |-> "error", source |-> "all"]>>

\* the call returned None after at least three providers were skipped
C3_Witness ==
  /\ pc = "done"
  /\ ret.isNone
  /\ Len(results) >= 3
  /\ Len(log) = Len(results) + 1

DeterministicOutcomes == {"errcode", "keyerror", "nojson", "badjson"}

\* C4 as claimed: three requests when every attempt ends in a transport
\* error, and no request after an attempt that ends in a deterministic
\* failure.
C4_OnlyTransportRetried ==
  /\ (Returned("eastmoney_new") /\ \A j \in 1..Len(outcomes) : outcomes[j] = "transport")
       => Count(net, "req:eastmoney_new") = MaxAttempts
  /\ \A j \in 1..Len(outcomes) :
       outcomes[j] \in DeterministicOutcomes => j = Len(outcomes)

\* C4 as amended: three requests when every attempt ends in a transport
\* error, and likewise after a deterministic failure: an attempt that does
\* not return a series, whatever its failure, is followed by a further
\* request until three requests have been issued; the provider returns None
\* only after its third request.
C4_EveryFailureRetried ==
  /\ Count(net, "req:eastmoney_new") = Len(outcomes)
  /\ Len(outcomes) <= MaxAttempts
  /\ \A j \in 1..Len(outcomes) :
       (outcomes[j] # "ok" /\ j < MaxAttempts) =>
          (Len(outcomes) > j \/ pc = "eastmoney_new")
  /\ (Returned("eastmoney_new") /\ ResultOf("eastmoney_new").isNone)
       => Len(outcomes) = MaxAttempts
  /\ (Returned("eastmoney_new") /\ \A j \in 1..Len(outcomes) : outcomes[j] = "transport")
       => Count(net, "req:eastmoney_new") = MaxAttempts

\* the first attempt ended in a deterministic failure and two more requests
\* followed, the last one ending in a transport error
C4_Witness ==
  /\ Returned("eastmoney_new")
  /\ Len(outcomes) = MaxAttempts
  /\ outcomes[1] \in DeterministicOutcomes
  /\ outcomes[MaxAttempts] = "transport"

\* C5: an attempt that ends in an empty result (ErrCode 0, no rows) is the
\* last request sent to that provider in the call.
C5_EmptyNotRetried ==
  \A j \in 1..Len(outcomes) : outcomes[j] = "empty" => j = Len(outcomes)

\* C6: a sleep lies between every two consecutive requests of the retry
\* loop, none follows the third request, and a run in which all three
\* attempts fail sleeps exactly twice.
C6_SleepBetweenAttempts ==
  /\ \A a \in 1..(Len(net) - 1) :
       net[a] = "req:eastmoney_new" => net[a + 1] # "req:eastmoney_new"
  /\ Count(net, "sleep") <= MaxAttempts - 1
  /\ (Returned("eastmoney_new") /\ ResultOf("eastmoney_new").isNone)
       => Count(net, "sleep") = MaxAttempts - 1

\* C7 as claimed: neither unimplemented provider ever issues a network
\* request.
C7_StubsNeverRequest ==
  /\ Count(net, "req:eastmoney_old") = 0
  /\ Count(net, "req:sina") = 0

\* C7 as amended: both unimplemented providers always return None;
\* _get_history_from_sina does so without a network request, and
\* _get_history_from_eastmoney_old issues exactly one request per invocation
\* before it does.
C7_StubsReturnNone ==
  /\ \A k \in 1..Len(results) :
       results[k].source \in {"eastmoney_old", "sina"} => results[k].df = None
  /\ Count(net, "req:eastmoney_old") = (IF Returned("eastmoney_old") THEN 1 ELSE 0)
  /\ Invoked("sina") => net[Len(net)] = "req:eastmoney_old"

\* both unimplemented providers have been invoked and have returned
C7_Witness ==
  /\ Returned("eastmoney_old")
  /\ Returned("sina")
  /\ pc = "done"

\* C8 as claimed: every series a provider produces is sorted ascending by
\* date and holds no date twice.
C8_SortedNoDuplicates ==
  \A k \in 1..Len(results) :
     ~results[k].df.isNone => StrictlySortedByDate(results[k].df.rows)

\* C8 as amended: every series a provider produces, and so every series the
\* call returns, is sorted ascending by date in the non-strict sense (no row
\* is dated before the row ahead of it); duplicate dates are not removed.
C8_SortedAscending ==
  /\ \A k \in 1..Len(results) : IsSortedByDate(results[k].df.rows)
  /\ IsSortedByDate(ret.rows)

\* the source emitted a date twice and both rows were returned
C8_Witness ==
  /\ pc = "done"
  /\ Len(ret.rows) = 2
  /\ ret.rows[1].date = ret.rows[2].date

\* C9: every row of the series the call returns is dated within
\* [start_date, end_date].
C9_WithinRange ==
  pc = "done" =>
     \A k \in 1..Len(ret.rows) :
        start_date <= ret.rows[k].date /\ ret.rows[k].date <= end_date

\* C10: the call returns None or a non-empty series, never an empty one.
C10_NeverEmpty ==
  pc = "done" => (ret = None \/ (~ret.isNone /\ Len(ret.rows) > 0))

\* a provider handed back an empty series and the call is over
C10_Witness ==
  /\ pc = "done"
  /\ \E k \in 1..Len(results) :
        ~results[k].df.isNone /\ Empty(results[k].df)

\* a JSONP envelope: other characters, an object, other characters
IsEnvelope(t) ==
  \E a \in 1..Len(t), b \in 1..Len(t) :
     /\ a < b
     /\ t[a] = "{"
     /\ t[b] = "}"
     /\ \A k \in 1..Len(t) : (k < a \/ k > b) => t[k] = "c"
     /\ a > 1
\* the object of an envelope
EnvelopeObject(t) ==
  SubSeq(t, CHOOSE a \in 1..Len(t) : t[a] = "{" /\ \A k \in 1..(a - 1) : t[k] = "c",
            CHOOSE b \in 1..Len(t) : t[b] = "}" /\ \A k \in (b + 1)..Len(t) : t[k] = "c")
\* no '{', no '}', or the last '}' ahead of the first '{'
NoBracketedRegion(t) ==
  \/ Find(t, "{") = 0 - 1
  \/ RFind(t, "}") = 0 - 1
  \/ RFind(t, "}") < Find(t, "{")

\* C13: for a JSONP envelope the text handed to the JSON parser is the region
\* from the first '{' to the last '}', whatever the callback name; for a text
\* with no bracketed region the extraction ends as NoJsonFound and nothing is
\* handed to the parser.
C13_Extraction ==
  xpc = "done" =>
     /\ IsEnvelope(json_str) =>
          (xout # "nojson" /\ xregion = EnvelopeObject(json_str))
     /\ NoBracketedRegion(json_str) => xout = "nojson"

\* ---- the rows of an answer, for the properties of the adapters
\* the number a numeric text stands for when an empty or unparseable text
\* counts as 0.0
ZeroDefault(t) == IF Parseable(t) THEN Float(t) ELSE 0
EmTextsOf(it) == {it.DWJZ, it.LJJZ, it.JZZZL}
AkTextsOf(it) == {it.net_value, it.growth_rate}
\* an answer of eastmoney_new with rows, all dated, whose numeric fields are
\* all present and drawn from allowed
EmRowsWithin(resp, allowed) ==
  /\ ~resp.exc
  /\ resp.status = StatusOK
  /\ ExtractOutcome(resp.text) = "parsed"
  /\ resp.ErrCode = 0
  /\ resp.hasList
  /\ resp.LSJZList # <<>>
  /\ \A k \in 1..Len(resp.LSJZList) :
       /\ resp.LSJZList[k].FSRQ \in Dates
       /\ EmTextsOf(resp.LSJZList[k]) \subseteq allowed
\* an answer of akshare with rows, all dated, whose numeric fields are all
\* drawn from allowed
AkRowsWithin(resp, allowed) ==
  /\ ~resp.exc
  /\ ~resp.isNone
  /\ resp.hasCols
  /\ resp.rows # <<>>
  /\ \A k \in 1..Len(resp.rows) :
       /\ resp.rows[k].date \in Dates
       /\ AkTextsOf(resp.rows[k]) \subseteq allowed
\* every row of the answer is in the frame, with ZeroDefault of its texts
EmRowsKept(resp, frame) ==
  /\ ~frame.isNone
  /\ Len(frame.rows) = Len(resp.LSJZList)
  /\ \A k \in 1..Len(resp.LSJZList) :
       \E j \in 1..Len(frame.rows) :
          /\ frame.rows[j].date = resp.LSJZList[k].FSRQ
          /\ frame.rows[j].net_value = ZeroDefault(resp.LSJZList[k].DWJZ)
          /\ frame.rows[j].cumulative_value = ZeroDefault(resp.LSJZList[k].LJJZ)
          /\ frame.rows[j].growth_rate = ZeroDefault(resp.LSJZList[k].JZZZL)
\* every row of the answer dated within [lo, hi] is in the frame, with
\* ZeroDefault of its texts
AkRowsKept(resp, frame, lo, hi) ==
  /\ ~frame.isNone
  /\ \A k \in 1..Len(resp.rows) :
       (lo <= resp.rows[k].date /\ resp.rows[k].date <= hi) =>
          \E j \in 1..Len(frame.rows) :
             /\ frame.rows[j].date = resp.rows[k].date
             /\ frame.rows[j].net_value = ZeroDefault(resp.rows[k].net_value)
             /\ frame.rows[j].growth_rate = ZeroDefault(resp.rows[k].growth_rate)

GoodTexts == {"1.5", "2.5", "0.1"}

\* C11: in each adapter, when the numeric fields of the rows are numbers or the
\* empty string, the attempt succeeds and every row is kept with 0.0 in
\* place of each empty field.
C11_EmptyFieldIsZero ==
  /\ (apc = "em_done" /\ EmRowsWithin(aresp, GoodTexts \cup {""}))
       => (aout = "ok" /\ EmRowsKept(aresp, aframe))
  /\ (apc = "ak_done" /\ AkRowsWithin(aresp, GoodTexts \cup {""}))
       => (aout = "ok" /\ AkRowsKept(aresp, aframe, start_date, end_date))

\* C12: in each adapter, when the numeric fields of the rows are numbers or
\* unparseable text, the attempt succeeds and every row is kept with 0.0 in
\* place of each unparseable field.
C12_UnparseableFieldIsZero ==
  /\ (apc = "em_done" /\ EmRowsWithin(aresp, GoodTexts \cup {"x"}))
       => (aout = "ok" /\ EmRowsKept(aresp, aframe))
  /\ (apc = "ak_done" /\ AkRowsWithin(aresp, GoodTexts \cup {"x"}))
       => (aout = "ok" /\ AkRowsKept(aresp, aframe, start_date, end_date))

\* the rows of the answer of eastmoney_new that lack a cumulative value
LacksCumulative(it) == it.LJJZ \in {"", Absent}

\* C18 as claimed: in each adapter, every returned row whose source row lacks
\* a cumulative value has cumulative_value equal to net_value.
C18_CumulativeDefaultsToNet ==
  /\ (apc = "ak_done" /\ ~aframe.isNone) =>
        \A j \in 1..Len(aframe.rows) :
           aframe.rows[j].cumulative_value = aframe.rows[j].net_value
  /\ (apc = "em_done" /\ aout = "ok"
        /\ \A k \in 1..Len(aresp.LSJZList) : LacksCumulative(aresp.LSJZList[k])) =>
        \A j \in 1..Len(aframe.rows) :
           aframe.rows[j].cumulative_value = aframe.rows[j].net_value

\* C18 as amended: in the akshare adapter, whose source has no cumulative
\* column, every returned row has cumulative_value equal to net_value; in the
\* eastmoney adapter a row whose LJJZ is the empty string is returned with
\* cumulative_value 0, whatever its net_value, and an answer with a row
\* that has no LJJZ at all returns no series.
C18_CumulativePerAdapter ==
  /\ (apc = "ak_done" /\ ~aframe.isNone) =>
        \A j \in 1..Len(aframe.rows) :
           aframe.rows[j].cumulative_value = aframe.rows[j].net_value
  /\ (apc = "em_done" /\ aout = "ok") =>
        /\ \A k \in 1..Len(aresp.LSJZList) : aresp.LSJZList[k].LJJZ # Absent
        /\ Cardinality({j \in 1..Len(aframe.rows) : aframe.rows[j].cumulative_value = 0})
             = Cardinality({k \in 1..Len(aresp.LSJZList) : aresp.LSJZList[k].LJJZ = ""})

\* akshare returned a row with a net value, and so with a cumulative value
C18_Witness ==
  /\ apc = "ak_done"
  /\ aout = "ok"
  /\ Len(aframe.rows) >= 1
  /\ aframe.rows[1].net_value = 15

Providers == {"akshare", "eastmoney_new", "eastmoney_old", "sina"}
\* the position of a provider in the list
Pos(source) == CHOOSE k \in 1..Len(data_sources) : data_sources[k] = source

C15_FallbackOnEmpty ==
  (pc = "done" /\ Accepts(ret)) =>
     /\ Len(results) >= 1
     /\ ret.rows = results[Len(results)].df.rows
     /\ log = [k \in 1..(Len(results) - 1) |->
                 [level |-> "warning", source |-> data_sources[k]]]
              \o <<[level |-> "info", source |-> data_sources[Len(results)]]>>

\* the first provider returned an empty series, the second one two rows,
\* which were returned, with one failure entry, for the first
C15_Witness ==
  /\ pc = "done"
  /\ Len(results) = 2
  /\ ~results[1].df.isNone
  /\ Empty(results[1].df)
  /\ Len(ret.rows) = 2
  /\ Count(log, [level |-> "warning", source |-> data_sources[1]]) = 1
  /\ Len(log) = 2

\* C16: the series the call returns is the one the succeeding provider handed
\* to the for loop: same rows, same order, same field values.
C16_Unmodified ==
  (pc = "done" /\ ~ret.isNone) =>
     /\ ret = df
     /\ \E k \in 1..Len(results) :
          /\ Accepts(results[k].df)
          /\ Len(ret.rows) = Len(results[k].df.rows)
          /\ \A j \in 1..Len(ret.rows) : ret.rows[j] = results[k].df.rows[j]

\* a series that has a row outside the requested range was returned
C16_Witness ==
  /\ pc = "done"
  /\ Len(ret.rows) = 2
  /\ ret.rows[1].date < start_date
  /\ ret.rows[2].date >= start_date

\* C19: an exception raised inside a provider does not end the call: the
\* provider after it in the list is invoked unless a series was obtained,
\* and the call ends only by returning a non-empty series or, with every
\* provider of the list invoked, None.
C19_ExceptionsContained ==
  /\ \A p \in raised :
       (pc = "done" /\ Returned(p) /\ ~Accepts(ResultOf(p)) /\ Pos(p) < Len(data_sources))
          => Invoked(data_sources[Pos(p) + 1])
  /\ pc = "done" => (Accepts(ret) \/ (ret = None /\ callOrder = data_sources))
  /\ raised \subseteq {callOrder[k] : k \in 1..Len(callOrder)}

\* an exception was raised inside akshare and a later provider's series was
\* returned
C19_Witness ==
  /\ "akshare" \in raised
  /\ pc = "done"
  /\ Accepts(ret)

\* the number of steps the call has taken is at least Progress / 2
Progress ==
  (IF pc = "start" THEN 0 ELSE 1) + Len(callOrder) + Len(outcomes)
    + Len(results) + Len(log)
MaxProgress == 1 + 4 + MaxAttempts + 4 + 5

\* C20: the call terminates within a bounded number of steps: every step
\* makes progress, the progress is bounded, and a call that is not over can
\* take a step; eastmoney_new sends at most 3 requests and sleeps at most
\* twice, sends none after an attempt that yields rows, and the call sends at
\* most 3 + 1 HTTP requests and calls akshare at most once.
C20_BoundedCall ==
  /\ [][Progress' > Progress]_vars
  /\ [](/\ Progress <= MaxProgress
        /\ pc # "done" => ENABLED Next
        /\ Count(net, "req:eastmoney_new") <= MaxAttempts
        /\ Count(net, "sleep") <= MaxAttempts - 1
        /\ Count(net, "req:eastmoney_old") <= 1
        /\ Count(net, "call:akshare") <= 1
        /\ Len(net) <= MaxAttempts + (MaxAttempts - 1) + 1 + 1
        /\ \A j \in 1..Len(outcomes) :
             outcomes[j] = "ok" =>
                (j = Len(outcomes) /\ Returned("eastmoney_new")))

\* a call that used every request and sleep it can
C20_Witness ==
  /\ pc = "done"
  /\ Count(net, "call:akshare") = 1
  /\ Count(net, "req:eastmoney_new") = MaxAttempts
  /\ Count(net, "sleep") = MaxAttempts - 1
  /\ Count(net, "req:eastmoney_old") = 1

\* C17: every call of get_fund_basic_info sends exactly one request, with no
\* retry and no other source, and on a transport, parse or coercion failure
\* it returns None to its caller; it returns the quote otherwise.
C17_SingleAttempt ==
  /\ infoNet = infoCalls
  /\ ipc \in {"idle", "returned"}
  /\ ipc = "returned" =>
       /\ infoOutcome \in {"ok", "transport", "json", "attribute", "float"}
       /\ (infoOutcome # "ok") <=> info.isNone
       /\ info.isNone => info = NoInfo

\* a call whose coercion failed returned None after one request
C17_Witness ==
  /\ ipc = "returned"
  /\ infoCalls = 1
  /\ infoNet = 1
  /\ infoOutcome = "float"
  /\ info.isNone

\* C21: in plot_fund_trend and in test_fund_110022 the history call is
\* started only after the quote call has returned a quote; when the quote
\* call fails no provider is invoked, no request of the history is sent and
\* no series is returned; and a series (True in the test) is returned only
\* when the quote call succeeded and the history call returned a non-empty
\* series, which is the series returned.
C21_QuoteBeforeHistory ==
  /\ pc # "off" =>
       /\ ipc = "returned"
       /\ infoOutcome = "ok"
       /\ ~info.isNone
       /\ ppc \in {"history", "done"}
  /\ (ipc = "returned" /\ info.isNone) =>
       /\ pc = "off"
       /\ callOrder = <<>>
       /\ net = <<>>
       /\ pret \in {"pending", "None", "False"}
  /\ ipc = "idle" => (pc = "off" /\ pret = "pending")
  /\ pret \in {"df", "True"} =>
       /\ ~info.isNone
       /\ pc = "done"
       /\ Accepts(ret)
  /\ infoNet <= 1

\* the quote call failed: plot_fund_trend returned nothing and no provider
\* was invoked
C21_Witness ==
  /\ entry = "plot_fund_trend"
  /\ ppc = "done"
  /\ infoCalls = 1
  /\ info.isNone
  /\ pret = "None"
  /\ callOrder = <<>>
====
